---- MODULE Spec2Model ----
(***************************************************************************)
(* The HTTP listener of the weather MCP server (main, the compiled HTTP     *)
(* entry point): the session registry `sessions`, the handler passed to    *)
(* createHttpServer, and the two callbacks it installs on every new        *)
(* transport (onsessioninitialized, onclose).                              *)
(*                                                                         *)
(* The handler is an async function on a single-threaded event loop: the   *)
(* code between two awaits is one atomic action.  The awaits are           *)
(*   line 184  await readJsonBody(req)                                     *)
(*   line 207  await mcpServer.connect(transport)                          *)
(*   line 217  await transport.handleRequest(req, res, body)               *)
(*   line 231  await session.transport.handleRequest(req, res)             *)
(* StreamableHTTPServerTransport and McpServer come from the MCP SDK; what *)
(* they do when called is stated where the call is modelled.               *)
(***************************************************************************)
EXTENDS Integers, FiniteSets, Sequences, TLC

\* ---------------------------------------------------------------- bounds
\* requests the listener handles at the same time (slots are reused)
MaxReq == 2
\* transports/engines ever created = session ids ever generated
MaxSessions == 2
\* nested firings of onclose from inside mcpServer.close()
MaxReentry == 1
\* longest `state` argument a caller passes to get_alerts
MaxLen == 3
\* most features / periods in one upstream answer
MaxItems == 2
\* dispatches of one tool with the same arguments, one after the other
MaxCalls == 2

\* ------------------------------------------------------------- constants
\* `undefined` for a session id (getSessionId, transport.sessionId)
Undefined == 0
\* `id: null` of sendJsonError
Null == 0
\* no transport reference held
NoTransport == 0
\* z.string().length(2)
StateLength == 2
\* z.number().min(-90).max(90)
LatMin == -90
LatMax == 90
\* z.number().min(-180).max(180)
LonMin == -180
LonMax == 180
\* alerts.slice(0, 20)
AlertLimit == 20
\* periods.slice(0, 8)
PeriodLimit == 8
\* response.ok: the status is in 200..299
StatusOk == 200

Req == 1..MaxReq
Transports == 1..MaxSessions
\* session ids; a client may send any of them, generated yet or not
Ids == 1..MaxSessions
\* correlation ids a request envelope may carry
CorrIds == {7, 8}

VARIABLES
    sessions,   \* the Map: session id -> [transport, mcpServer]
    tr,         \* per transport/engine pair: created, sessionId, announced, closed, closeCalls
    req,        \* per request slot: position in the handler, request (hdr is the
                \* handler's sessionId), response
    alive,      \* the process has not been terminated by an uncaught fault
    call        \* one dispatch of a tool of createWeatherServer: input, position in
                \* the handler, upstream requests and answers, result

vars == <<sessions, tr, req, alive, call>>

\* --------------------------------------------------------- request bodies
\* What JSON.parse can return for the bodies considered, and `undefined`.
\* typ is the JavaScript typeof; hasMethod is `"method" in body`.
BodyUndefined == [typ |-> "undefined", isNull |-> FALSE, hasMethod |-> FALSE, method |-> "", id |-> Null]
BodyNull == [typ |-> "object", isNull |-> TRUE, hasMethod |-> FALSE, method |-> "", id |-> Null]
BodyNoMethod == [typ |-> "object", isNull |-> FALSE, hasMethod |-> FALSE, method |-> "", id |-> Null]
BodyEnvelope(m, c) == [typ |-> "object", isNull |-> FALSE, hasMethod |-> TRUE, method |-> m, id |-> c]

Envelopes == {BodyEnvelope(m, c) : m \in {"initialize", "tools/call"}, c \in CorrIds}

\* The raw request bodies: text is "" (only whitespace), "badjson" (JSON.parse
\* throws) or "json" with the value it parses to.
RawBodies ==
    {[text |-> "", value |-> BodyUndefined], [text |-> "badjson", value |-> BodyUndefined]}
    \cup {[text |-> "json", value |-> v] : v \in Envelopes \cup {BodyNoMethod, BodyNull}}

isInitializeRequest(body) ==
    /\ body.typ = "object"
    /\ ~body.isNull
    /\ body.hasMethod
    /\ body.method = "initialize"

\* readJsonBody: [threw, value]; an empty body is undefined, anything else
\* goes through JSON.parse, which throws on text that is not JSON.
readJsonBody(raw) ==
    IF raw.text = "" THEN [threw |-> FALSE, value |-> BodyUndefined]
    ELSE IF raw.text = "badjson" THEN [threw |-> TRUE, value |-> BodyUndefined]
    ELSE [threw |-> FALSE, value |-> raw.value]

\* The mcp-session-id header of a request: absent, or one id as a string.
Headers == {<<"absent", Undefined>>} \cup {<<"string", i>> : i \in Ids}

\* getSessionId: the header when it is a string, else undefined.
getSessionId(header) == IF header[1] = "string" THEN header[2] ELSE Undefined

\* ------------------------------------------------------------- responses
NoResponse == [status |-> 0, msg |-> "", id |-> Null, sid |-> Undefined]

\* sendJsonError: nothing once the headers are out, else the status and
\* {jsonrpc: "2.0", error: {code: -32000, message}, id: null}.
sendJsonError(q, statusCode, message) ==
    IF q.headersSent THEN q
    ELSE [q EXCEPT !.headersSent = TRUE,
                   !.res = [status |-> statusCode, msg |-> message, id |-> Null, sid |-> Undefined]]

\* What the transport or the health route writes itself (writeHead + end).
writeResponse(q, statusCode, message, rid, sid) ==
    [q EXCEPT !.headersSent = TRUE,
              !.res = [status |-> statusCode, msg |-> message, id |-> rid, sid |-> sid]]

Idle ==
    [pc |-> "idle", url |-> "", method |-> "", hdr |-> Undefined, body |-> BodyUndefined,
     raw |-> "none", transport |-> NoTransport, headersSent |-> FALSE, caught |-> FALSE,
     res |-> NoResponse]

Done(q) == [q EXCEPT !.pc = "done"]

\* readJsonBody returned a value (line 184 did not throw)
Parsed(q) == q.raw \in {"", "json"}

\* announced: the mcp-session-id response header has gone out to a client
NoTr == [created |-> FALSE, sessionId |-> Undefined, announced |-> FALSE, closed |-> FALSE,
         closeCalls |-> 0]

\* ------------------------------------------------------------------ tools
\* The two tools of createWeatherServer (lines 36-136; the stdio entry point
\* src/src/index.ts registers the same two handlers).  The engine checks the
\* arguments against the tool's schema and calls the handler only when they
\* pass; the handler awaits nwsRequest once (get_alerts) or twice
\* (get_forecast).
\*
\* A string is a sequence of characters; these are the characters of the
\* `state` arguments considered: two letters in both cases and a digit.
Chars == {"a", "A", "c", "C", "9"}

Strings == UNION {[1..k -> Chars] : k \in 0..MaxLen}

\* The latitudes and longitudes considered: both ends of the schema's range,
\* the values next to them on either side, and values inside.
Latitudes == {LatMin - 1, LatMin, LatMin + 1, 0, 45, LatMax - 1, LatMax, LatMax + 1}
Longitudes == {LonMin - 1, LonMin, LonMin + 1, -122, 0, LonMax - 1, LonMax, LonMax + 1}

\* String.prototype.toUpperCase on one character of Chars
toUpperCaseChar(c) ==
    CASE c = "a" -> "A"
      [] c = "c" -> "C"
      [] OTHER -> c

\* A normalisation that leaves the string as it came.
toUpperCase_identity(str) == str

\* state.toUpperCase() (line 40)
toUpperCase(str) == [i \in 1..Len(str) |-> toUpperCaseChar(str[i])]

\* z.string().length(2) (line 37)
alertsSchema(state) == Len(state) = StateLength

\* A range check that leaves the end points out.
forecastSchema_exclusive(latitude, longitude) ==
    /\ latitude > LatMin
    /\ latitude < LatMax
    /\ longitude > LonMin
    /\ longitude < LonMax

\* z.number().min(-90).max(90), z.number().min(-180).max(180) (lines 81-82)
forecastSchema(latitude, longitude) ==
    /\ latitude >= LatMin
    /\ latitude <= LatMax
    /\ longitude >= LonMin
    /\ longitude <= LonMax

\* An upstream reference: the fixed text and what is interpolated into it.  A
\* number is interpolated as its decimal text, which differs for different
\* numbers, so the number stands for it.
alertsUrl(normalizedState) ==
    [base |-> "https://api.weather.gov/alerts/active/area/", state |-> normalizedState,
     latitude |-> 0, longitude |-> 0]

pointsUrl(latitude, longitude) ==
    [base |-> "https://api.weather.gov/points/", state |-> << >>,
     latitude |-> latitude, longitude |-> longitude]

\* points.properties.forecast is used as the reference as it came
forecastUrl(ref) == [base |-> ref, state |-> << >>, latitude |-> 0, longitude |-> 0]

\* What an alert or a forecast period says (its properties).
Items == {"flood", "wind"}

ItemLists == UNION {[1..k -> Items] : k \in 0..MaxItems}

\* The forecast reference of a points answer; "" is a missing one.
ForecastRef == "https://api.weather.gov/gridpoints/TOP/31,80/forecast"

\* An answer of the upstream API to one request: fetch rejects ("network"),
\* the status is not OK ("status"), the body is no JSON ("notjson"), or "ok"
\* with the JSON value: present is whether the list (features,
\* properties.periods) is there, items the list, forecast
\* properties.forecast.
Answer(kind, status, present, items, forecast) ==
    [kind |-> kind, status |-> status, present |-> present, items |-> items,
     forecast |-> forecast]

Failures ==
    {Answer("network", 0, FALSE, << >>, ""), Answer("notjson", StatusOk, FALSE, << >>, "")}
    \cup {Answer("status", st, FALSE, << >>, "") : st \in {404, 500}}

ListAnswers ==
    {Answer("ok", StatusOk, TRUE, l, "") : l \in ItemLists}
    \cup {Answer("ok", StatusOk, FALSE, << >>, "")}

PointsAnswers == {Answer("ok", StatusOk, FALSE, << >>, ref) : ref \in {"", ForecastRef}}

\* nwsRequest (lines 10-16): [threw, value]
nwsRequest(answer) ==
    IF answer.kind = "network" THEN [threw |-> TRUE, value |-> answer]
    ELSE IF answer.status # StatusOk THEN [threw |-> TRUE, value |-> answer]
    ELSE IF answer.kind = "notjson" THEN [threw |-> TRUE, value |-> answer]
    ELSE [threw |-> FALSE, value |-> answer]

\* A text block: the fixed text, the state code interpolated into it and the
\* rendered items joined into it.
TextBlock(msg, state, items) ==
    [type |-> "text", text |-> [msg |-> msg, state |-> state, items |-> items]]

NoResult == [isError |-> FALSE, content |-> << >>]

\* return { content: [block] }: isError is left out
Returned(block) == [pc |-> "returned", result |-> [isError |-> FALSE, content |-> <<block>>]]

\* A handler without the try/catch: the rejection goes to the caller.
toolCatch_rethrow(tool) == [pc |-> "raised", result |-> NoResult]

\* The catch blocks (lines 67-78, 124-135): the error is logged, the result is
\* the tool's fixed text with isError: true.
toolCatch(tool) ==
    [pc |-> "returned",
     result |-> [isError |-> TRUE,
                 content |-> <<TextBlock(IF tool = "get_alerts"
                                         THEN "Failed to fetch weather alerts from NWS API."
                                         ELSE "Failed to fetch weather forecast from NWS API.",
                                         << >>, << >>)>>]]

Min(a, b) == IF a <= b THEN a ELSE b

\* alerts.slice(0, 20).map((alert, idx) => `Alert ${idx + 1}\n...`) (lines 53-56)
renderAlerts(alerts) ==
    [i \in 1..Min(Len(alerts), AlertLimit) |-> [idx |-> i, body |-> alerts[i]]]

\* periods.slice(0, 8).map(...) (lines 103-114); a period carries no number
renderForecast(periods) ==
    [i \in 1..Min(Len(periods), PeriodLimit) |-> [idx |-> 0, body |-> periods[i]]]

\* get_alerts from the answer of its request on (lines 42-66)
alertsOutcome(normalizedState, answer) ==
    LET data == nwsRequest(answer)
        alerts == IF data.value.present THEN data.value.items ELSE << >>
    IN  IF data.threw THEN toolCatch("get_alerts")
        ELSE IF Len(alerts) = 0
        THEN Returned(TextBlock("No active weather alerts found for state ",
                                normalizedState, << >>))
        ELSE Returned(TextBlock("", << >>, renderAlerts(alerts)))

\* get_forecast from the answer of its second request on (lines 91-122)
forecastOutcome(answer) ==
    LET forecast == nwsRequest(answer)
        periods == IF forecast.value.present THEN forecast.value.items ELSE << >>
    IN  IF forecast.threw THEN toolCatch("get_forecast")
        ELSE IF Len(periods) = 0
        THEN Returned(TextBlock("No forecast periods were returned for this location.",
                                << >>, << >>))
        ELSE Returned(TextBlock("", << >>, renderForecast(periods)))

\* What is kept of the first of several dispatches of the same arguments.
NoFirst == [pc |-> "none", requests |-> << >>, got |-> << >>, result |-> NoResult]

NoCall ==
    [tool |-> "", state |-> << >>, latitude |-> 0, longitude |-> 0, pc |-> "none",
     requests |-> << >>, got |-> << >>, result |-> NoResult, round |-> 0, first |-> NoFirst]

NewCall(tool, state, latitude, longitude) ==
    [NoCall EXCEPT !.tool = tool, !.state = state, !.latitude = latitude,
                   !.longitude = longitude, !.pc = "dispatch", !.round = 1]

ToolCalls ==
    {NewCall("get_alerts", s, 0, 0) : s \in Strings}
    \cup {NewCall("get_forecast", << >>, la, lo) : la \in Latitudes, lo \in Longitudes}

Init ==
    /\ sessions = << >>
    /\ tr = [t \in Transports |-> NoTr]
    /\ req = [r \in Req |-> Idle]
    /\ alive = TRUE
    /\ call = NoCall

\* --------------------------------------------------------------- registry
\* A generator that hands out the same id every time.
randomUUID_fixed(trs) == 1

\* sessionIdGenerator: () => randomUUID().  A version-4 UUID is a value no
\* earlier call returned; ids are only ever compared for equality, so the
\* smallest id no transport holds stands for it.
randomUUID(trs) ==
    CHOOSE i \in Ids :
        /\ \A t \in Transports : trs[t].sessionId # i
        /\ \A j \in Ids : (\A t \in Transports : trs[t].sessionId # j) => i <= j

\* A callback that forgets to register the session.
onsessioninitialized_skip(sess, newSessionId, t) == sess

\* A callback that registers every session with the first transport and
\* engine.
onsessioninitialized_shared(sess, newSessionId, t) ==
    [k \in DOMAIN sess \cup {newSessionId} |->
        IF k = newSessionId THEN [transport |-> 1, mcpServer |-> 1] ELSE sess[k]]

\* onsessioninitialized (lines 193-195): sessions.set(newSessionId, {transport, mcpServer})
onsessioninitialized(sess, newSessionId, t) ==
    [k \in DOMAIN sess \cup {newSessionId} |->
        IF k = newSessionId THEN [transport |-> t, mcpServer |-> t] ELSE sess[k]]

\* A delete that leaves the entry in place.
MapDelete_keep(sess, sid) == sess

\* sessions.delete(sid)
MapDelete(sess, sid) == [k \in DOMAIN sess \ {sid} |-> sess[k]]

\* transport.onclose (lines 198-206) of the transport t, on the pair
\* S = [sessions, tr].  mcpServer.close() is counted in closeCalls of the
\* engine; the SDK's close() closes the transport the engine is connected
\* to (the one created with it), which fires that transport's onclose again
\* from inside the call, before line 204 has run: depth is the number of
\* such nested firings still allowed.
RECURSIVE onclose(_, _, _)
onclose(S, t, depth) ==
    LET sid == S.tr[t].sessionId
    IN  IF sid # Undefined
        THEN LET S1 == IF sid \in DOMAIN S.sessions
                       THEN LET e  == S.sessions[sid].mcpServer
                                Sc == [S EXCEPT !.tr[e].closeCalls = @ + 1]
                            IN  IF depth > 0 THEN onclose(Sc, e, depth - 1)
                                ELSE Sc
                       ELSE S
             IN  [S1 EXCEPT !.sessions = MapDelete(S1.sessions, sid)]
        ELSE S

\* transport.close() of the SDK: marks nothing itself but fires this.onclose.
transportClose(S, t, depth) ==
    onclose([S EXCEPT !.tr[t].closed = TRUE], t, depth)

\* Routing that never looks a supplied id up.
RouteBranch_noLookup(sess, sessionId, body) ==
    IF sessionId = Undefined /\ isInitializeRequest(body) THEN "create" ELSE "reject"

\* Routing that creates a session for any initialization request, also one
\* that carries an id the registry does not know.
RouteBranch_anyInit(sess, sessionId, body) ==
    IF sessionId # Undefined /\ sessionId \in DOMAIN sess THEN "existing"
    ELSE IF isInitializeRequest(body) THEN "create"
    ELSE "reject"

\* Routing that tests for an initialization request before it looks the id
\* up.
RouteBranch_initFirst(sess, sessionId, body) ==
    IF isInitializeRequest(body) THEN "create"
    ELSE IF sessionId # Undefined /\ sessionId \in DOMAIN sess THEN "existing"
    ELSE "reject"

\* The branch the POST handler takes (lines 186-212).
RouteBranch(sess, sessionId, body) ==
    IF sessionId # Undefined /\ sessionId \in DOMAIN sess THEN "existing"
    ELSE IF sessionId = Undefined /\ isInitializeRequest(body) THEN "create"
    ELSE "reject"

\* A handler without the try/catch: the rejection is unhandled and ends the
\* process.
catchBlock_rethrow(q) == [req |-> Done([q EXCEPT !.caught = TRUE]), alive |-> FALSE]

\* The catch block (lines 236-239): a 500 unless the headers are out; the
\* handler's promise resolves, so the process lives on.
catchBlock(q) ==
    [req |-> Done(sendJsonError([q EXCEPT !.caught = TRUE], 500, "Internal server error")),
     alive |-> TRUE]

Created == {t \in Transports : tr[t].created}

\* ---------------------------------------------------------------- health
\* lines 172-176
Health(r) ==
    /\ alive
    /\ UNCHANGED call
    /\ req[r].pc = "idle"
    /\ \E m \in {"GET", "POST"} :
        req' = [req EXCEPT ![r] =
                  Done(writeResponse([Idle EXCEPT !.url = "/health", !.method = m],
                                     200, "ok", Null, Undefined))]
    /\ UNCHANGED <<sessions, tr, alive>>

\* lines 177-180
UnknownRoute(r) ==
    /\ alive
    /\ UNCHANGED call
    /\ req[r].pc = "idle"
    /\ \E m \in {"GET", "POST"} :
        req' = [req EXCEPT ![r] =
                  Done(sendJsonError([Idle EXCEPT !.url = "/other", !.method = m],
                                     404, "Not found"))]
    /\ UNCHANGED <<sessions, tr, alive>>

\* line 234: a method that is neither POST, GET nor DELETE
MethodNotAllowed(r) ==
    /\ alive
    /\ UNCHANGED call
    /\ req[r].pc = "idle"
    /\ \E h \in Headers :
        req' = [req EXCEPT ![r] =
                  Done(sendJsonError([Idle EXCEPT !.url = "/mcp", !.method = "PUT",
                                                  !.hdr = getSessionId(h)],
                                     405, "Method not allowed"))]
    /\ UNCHANGED <<sessions, tr, alive>>

\* ------------------------------------------------------------ GET, DELETE
\* lines 220-231, up to the await: header, lookup, and the call of
\* handleRequest on the session's transport.
GetDelete(r) ==
    /\ alive
    /\ UNCHANGED call
    /\ req[r].pc = "idle"
    /\ \E m \in {"GET", "DELETE"}, h \in Headers :
        LET sessionId == getSessionId(h)
            q == [Idle EXCEPT !.url = "/mcp", !.method = m, !.hdr = sessionId]
        IN  req' = [req EXCEPT ![r] =
                IF sessionId = Undefined
                THEN Done(sendJsonError(q, 400, "Missing mcp-session-id header"))
                ELSE IF sessionId \notin DOMAIN sessions
                THEN Done(sendJsonError(q, 404, "Session not found"))
                ELSE [q EXCEPT !.pc = "handle", !.transport = sessions[sessionId].transport]]
    /\ UNCHANGED <<sessions, tr, alive>>

\* ------------------------------------------------------------------ POST
\* lines 182-184: the header is read, then the handler awaits the body.
PostArrive(r) ==
    /\ alive
    /\ UNCHANGED call
    /\ req[r].pc = "idle"
    /\ \E h \in Headers :
        req' = [req EXCEPT ![r] =
                  [Idle EXCEPT !.url = "/mcp", !.method = "POST", !.hdr = getSessionId(h),
                               !.pc = "body"]]
    /\ UNCHANGED <<sessions, tr, alive>>

\* lines 184-212, from the end of the body to the next await.  The body is
\* whatever the client sent; a session is created only while the model has
\* a transport left to create.
PostBody(r) ==
    /\ alive
    /\ UNCHANGED call
    /\ req[r].pc = "body"
    /\ \E raw \in RawBodies :
        LET q0 == req[r]
            got == readJsonBody(raw)
            qr == [q0 EXCEPT !.raw = raw.text]
            q == [qr EXCEPT !.body = got.value]
            sessionId == q0.hdr
            branch == RouteBranch(sessions, sessionId, got.value)
            t == Cardinality(Created) + 1
        IN  IF got.threw
            THEN /\ req' = [req EXCEPT ![r] = catchBlock(qr).req]
                 /\ alive' = catchBlock(qr).alive
                 /\ UNCHANGED <<sessions, tr>>
            ELSE IF branch = "existing"
            THEN /\ req' = [req EXCEPT ![r] =
                       [q EXCEPT !.pc = "handle", !.transport = sessions[sessionId].transport]]
                 /\ UNCHANGED <<sessions, tr, alive>>
            ELSE IF branch = "create"
            THEN /\ t \in Transports
                 /\ tr' = [tr EXCEPT ![t].created = TRUE]
                 /\ req' = [req EXCEPT ![r] = [q EXCEPT !.pc = "connect", !.transport = t]]
                 /\ UNCHANGED <<sessions, alive>>
            ELSE /\ req' = [req EXCEPT ![r] =
                       Done(sendJsonError(q, 400, "Bad Request: No valid session ID provided"))]
                 /\ UNCHANGED <<sessions, tr, alive>>

\* line 184: the request stream fails while the body is read
PostBodyFault(r) ==
    /\ alive
    /\ UNCHANGED call
    /\ req[r].pc = "body"
    /\ req' = [req EXCEPT ![r] = catchBlock(req[r]).req]
    /\ alive' = catchBlock(req[r]).alive
    /\ UNCHANGED <<sessions, tr>>

\* lines 207-217: connect resolved; transport is set, so line 213 passes and
\* handleRequest is called.
ConnectDone(r) ==
    /\ alive
    /\ UNCHANGED call
    /\ req[r].pc = "connect"
    /\ req' = [req EXCEPT ![r].pc = "handle"]
    /\ UNCHANGED <<sessions, tr, alive>>

\* line 207: connect (or createWeatherServer before it) throws
ConnectFault(r) ==
    /\ alive
    /\ UNCHANGED call
    /\ req[r].pc = "connect"
    /\ req' = [req EXCEPT ![r] = catchBlock(req[r]).req]
    /\ alive' = catchBlock(req[r]).alive
    /\ UNCHANGED <<sessions, tr>>

\* ------------------------------------------------- transport.handleRequest
\* The SDK's transport on an initialize request it is the first to see:
\* sessionId = sessionIdGenerator(), then onsessioninitialized(sessionId),
\* with no await between the two; the response comes later.
TransportInitialize(r) ==
    /\ alive
    /\ UNCHANGED call
    /\ req[r].pc = "handle"
    /\ req[r].method = "POST"
    /\ isInitializeRequest(req[r].body)
    /\ LET t == req[r].transport
           newSessionId == randomUUID(tr)
       IN  /\ tr[t].sessionId = Undefined
           /\ tr' = [tr EXCEPT ![t].sessionId = newSessionId]
           /\ sessions' = onsessioninitialized(sessions, newSessionId, t)
           /\ req' = [req EXCEPT ![r].pc = "respond"]
    /\ UNCHANGED alive

\* The initialize result goes out with the mcp-session-id header.
TransportRespond(r) ==
    /\ alive
    /\ UNCHANGED call
    /\ req[r].pc = "respond"
    /\ LET q == req[r]
       IN  /\ req' = [req EXCEPT ![r] =
                 Done(writeResponse(q, 200, "result", q.body.id, tr[q.transport].sessionId))]
           /\ tr' = [tr EXCEPT ![q.transport].announced = TRUE]
    /\ UNCHANGED <<sessions, alive>>

\* Every other POST on a transport: a second initialize is refused, a body
\* that is no JSON-RPC message is a parse error, both with id null as the SDK
\* writes them; a session header that is not the transport's is a 404; a
\* request envelope is answered by the engine under its own id.
TransportPost(r) ==
    /\ alive
    /\ UNCHANGED call
    /\ req[r].pc = "handle"
    /\ req[r].method = "POST"
    /\ LET q == req[r]
           t == q.transport
       IN  /\ ~(isInitializeRequest(q.body) /\ tr[t].sessionId = Undefined)
           /\ req' = [req EXCEPT ![r] =
                 IF ~(q.body.typ = "object" /\ ~q.body.isNull /\ q.body.hasMethod)
                 THEN Done(writeResponse(q, 400, "Parse error", Null, Undefined))
                 ELSE IF isInitializeRequest(q.body)
                 THEN Done(writeResponse(q, 400, "Invalid Request: Server already initialized",
                                         Null, Undefined))
                 ELSE IF q.hdr # tr[t].sessionId
                 THEN Done(writeResponse(q, 404, "Session not found", Null, Undefined))
                 ELSE Done(writeResponse(q, 200, "result", q.body.id, Undefined))]
    /\ UNCHANGED <<sessions, tr, alive>>

\* GET on a session: the transport opens the event stream.
TransportGet(r) ==
    /\ alive
    /\ UNCHANGED call
    /\ req[r].pc = "handle"
    /\ req[r].method = "GET"
    /\ req' = [req EXCEPT ![r] = Done(writeResponse(req[r], 200, "stream", Null, Undefined))]
    /\ UNCHANGED <<sessions, tr, alive>>

\* DELETE on a session: the transport calls its close(), which fires
\* onclose, and then answers 200.
TransportDelete(r) ==
    /\ alive
    /\ UNCHANGED call
    /\ req[r].pc = "handle"
    /\ req[r].method = "DELETE"
    /\ \E depth \in 0..MaxReentry :
        LET S == transportClose([sessions |-> sessions, tr |-> tr], req[r].transport, depth)
        IN  /\ sessions' = S.sessions
            /\ tr' = S.tr
    /\ req' = [req EXCEPT ![r] = Done(writeResponse(req[r], 200, "", Null, Undefined))]
    /\ UNCHANGED alive

\* handleRequest rejects (lines 217, 231): the fault comes before or after
\* the transport has written the response headers; those of an initialize
\* response carry the session id.  The answer to a DELETE is the last thing
\* the transport does, so a fault there comes before it.
TransportFault(r) ==
    /\ alive
    /\ UNCHANGED call
    /\ req[r].pc \in {"handle", "respond"}
    /\ \E sent \in (IF req[r].method = "DELETE" THEN {FALSE} ELSE BOOLEAN) :
        LET t == req[r].transport
            sid == IF req[r].pc = "respond" THEN tr[t].sessionId ELSE Undefined
            q == IF sent THEN writeResponse(req[r], 200, "", Null, sid) ELSE req[r]
        IN  /\ req' = [req EXCEPT ![r] = catchBlock(q).req]
            /\ alive' = catchBlock(q).alive
            /\ tr' = IF sent /\ sid # Undefined THEN [tr EXCEPT ![t].announced = TRUE] ELSE tr
    /\ UNCHANGED sessions

\* A close of an established session's transport that no DELETE asked for.
TransportClose(t) ==
    /\ alive
    /\ UNCHANGED call
    /\ tr[t].sessionId # Undefined
    /\ ~tr[t].closed
    /\ \E depth \in 0..MaxReentry :
        LET S == transportClose([sessions |-> sessions, tr |-> tr], t, depth)
        IN  /\ sessions' = S.sessions
            /\ tr' = S.tr
    /\ UNCHANGED <<req, alive>>

\* The exchange is over; the slot takes the next request.
Reset(r) ==
    /\ alive
    /\ UNCHANGED call
    /\ req[r].pc = "done"
    /\ req' = [req EXCEPT ![r] = Idle]
    /\ UNCHANGED <<sessions, tr, alive>>

Next ==
    \/ \E r \in Req : Health(r)
    \/ \E r \in Req : UnknownRoute(r)
    \/ \E r \in Req : MethodNotAllowed(r)
    \/ \E r \in Req : GetDelete(r)
    \/ \E r \in Req : PostArrive(r)
    \/ \E r \in Req : PostBody(r)
    \/ \E r \in Req : PostBodyFault(r)
    \/ \E r \in Req : ConnectDone(r)
    \/ \E r \in Req : ConnectFault(r)
    \/ \E r \in Req : TransportInitialize(r)
    \/ \E r \in Req : TransportRespond(r)
    \/ \E r \in Req : TransportPost(r)
    \/ \E r \in Req : TransportGet(r)
    \/ \E r \in Req : TransportDelete(r)
    \/ \E r \in Req : TransportFault(r)
    \/ \E t \in Transports : TransportClose(t)
    \/ \E r \in Req : Reset(r)

Spec == Init /\ [][Next]_vars

\* ------------------------------------------------------------- tool calls
\* tools/call get_alerts: the schema, then the handler up to its await
\* (lines 37-42)
GetAlertsCall ==
    /\ call.pc = "dispatch"
    /\ call.tool = "get_alerts"
    /\ call' = IF alertsSchema(call.state)
               THEN [call EXCEPT !.pc = "alerts",
                                 !.requests = <<alertsUrl(toUpperCase(call.state))>>]
               ELSE [call EXCEPT !.pc = "invalid"]
    /\ UNCHANGED <<sessions, tr, req, alive>>

\* lines 42-78: the answer to the alerts request, to the return
GetAlertsAnswer ==
    /\ call.pc = "alerts"
    /\ \E answer \in ListAnswers \cup Failures :
        LET out == alertsOutcome(toUpperCase(call.state), answer)
        IN  call' = [call EXCEPT !.got = Append(@, answer), !.pc = out.pc,
                                 !.result = out.result]
    /\ UNCHANGED <<sessions, tr, req, alive>>

\* tools/call get_forecast: the schema, then the handler up to its first
\* await (lines 81-86)
GetForecastCall ==
    /\ call.pc = "dispatch"
    /\ call.tool = "get_forecast"
    /\ call' = IF forecastSchema(call.latitude, call.longitude)
               THEN [call EXCEPT !.pc = "points",
                                 !.requests = <<pointsUrl(call.latitude, call.longitude)>>]
               ELSE [call EXCEPT !.pc = "invalid"]
    /\ UNCHANGED <<sessions, tr, req, alive>>

\* lines 86-91: the answer to the points request; without a forecast
\* reference the handler throws into its own catch
GetForecastPoints ==
    /\ call.pc = "points"
    /\ \E answer \in PointsAnswers \cup Failures :
        LET points == nwsRequest(answer)
            ref == points.value.forecast
            out == toolCatch("get_forecast")
        IN  call' = IF points.threw \/ ref = ""
                    THEN [call EXCEPT !.got = Append(@, answer), !.pc = out.pc,
                                      !.result = out.result]
                    ELSE [call EXCEPT !.got = Append(@, answer), !.pc = "forecast",
                                      !.requests = Append(@, forecastUrl(ref))]
    /\ UNCHANGED <<sessions, tr, req, alive>>

\* lines 91-135: the answer to the forecast request, to the return
GetForecastForecast ==
    /\ call.pc = "forecast"
    /\ \E answer \in ListAnswers \cup Failures :
        LET out == forecastOutcome(answer)
        IN  call' = [call EXCEPT !.got = Append(@, answer), !.pc = out.pc,
                                 !.result = out.result]
    /\ UNCHANGED <<sessions, tr, req, alive>>

\* The caller dispatches the same tool with the same arguments again; what
\* the first dispatch did is kept for comparison.
Repeat ==
    /\ call.pc \in {"returned", "invalid", "raised"}
    /\ call.round < MaxCalls
    /\ call' = [call EXCEPT !.pc = "dispatch", !.round = @ + 1, !.requests = << >>,
                            !.got = << >>, !.result = NoResult,
                            !.first = IF call.round = 1
                                      THEN [pc |-> call.pc, requests |-> call.requests,
                                            got |-> call.got, result |-> call.result]
                                      ELSE @]
    /\ UNCHANGED <<sessions, tr, req, alive>>

ToolInit ==
    /\ sessions = << >>
    /\ tr = [t \in Transports |-> NoTr]
    /\ req = [r \in Req |-> Idle]
    /\ alive = TRUE
    /\ call \in ToolCalls

ToolNext ==
    \/ GetAlertsCall
    \/ GetAlertsAnswer
    \/ GetForecastCall
    \/ GetForecastPoints
    \/ GetForecastForecast
    \/ Repeat

\* One tool dispatched on every input considered, under every upstream answer.
SpecTools == ToolInit /\ [][ToolNext]_vars

\* ================================================================ claims
\* The transport that generated session id i, if any.
Holder(i) == {t \in Transports : tr[t].sessionId = i}

\* r makes its registry lookup in this step: GET and DELETE on arrival
\* (line 226), POST once its body has been read and parsed (line 186).
LooksUp(r) ==
    \/ req[r].pc = "idle" /\ req'[r].method \in {"GET", "DELETE"}
    \/ req[r].pc = "body" /\ req'[r].raw \in {"", "json"}

\* r's body has arrived in this step, parseable or not, or r is a GET or
\* DELETE that arrives.
Arrives(r) ==
    \/ req[r].pc = "idle" /\ req'[r].method \in {"GET", "DELETE"}
    \/ req[r].pc = "body" /\ req'[r].raw # "none"

RoutingMessages ==
    {"Bad Request: No valid session ID provided", "Session not found",
     "Missing mcp-session-id header"}

RoutingError(res) == res.status \in {400, 404} /\ res.msg \in RoutingMessages

\* C1: an id is a key of the registry exactly when a transport has reported
\* the session with that id initialized and that transport has not signaled
\* closure; the entry is that transport's, and a transport whose handshake
\* never completed is in no entry.
C1_RegisteredIffInitializedAndOpen ==
    /\ \A i \in Ids :
        i \in DOMAIN sessions <=> \E t \in Holder(i) : ~tr[t].closed
    /\ \A i \in DOMAIN sessions :
        /\ sessions[i].transport \in Holder(i)
        /\ sessions[i].mcpServer = sessions[i].transport
    /\ DOMAIN sessions \subseteq Ids

\* One session registered, another initialized, closed and gone from the
\* registry.
C1_Witness ==
    \E t1, t2 \in Transports :
        /\ tr[t1].sessionId \in DOMAIN sessions
        /\ tr[t2].sessionId # Undefined
        /\ tr[t2].closed
        /\ tr[t2].sessionId \notin DOMAIN sessions

\* C2: initialization requests without a session id, interleaved at their
\* awaits, get pairwise distinct session ids and one registry entry each,
\* the entry of id i being the transport created for i; a request that
\* carries i and is routed holds exactly that transport.
C2_DistinctIdsSeparateEntries ==
    /\ \A t1, t2 \in Transports :
        (t1 # t2 /\ tr[t1].sessionId # Undefined) => tr[t1].sessionId # tr[t2].sessionId
    /\ \A t \in Transports :
        (tr[t].sessionId # Undefined /\ ~tr[t].closed) =>
            /\ tr[t].sessionId \in DOMAIN sessions
            /\ sessions[tr[t].sessionId].transport = t
    /\ \A r \in Req :
        (req[r].hdr # Undefined /\ req[r].transport # NoTransport) =>
            tr[req[r].transport].sessionId = req[r].hdr

\* Two sessions are registered and a request carrying the id of the second
\* has been routed to the second transport.
C2_Witness ==
    /\ Cardinality(DOMAIN sessions) = 2
    /\ \E r \in Req :
        /\ req[r].pc = "handle"
        /\ req[r].hdr = 2
        /\ req[r].transport = sessions[2].transport

\* C3: once the session id has gone out to the creating request's caller and
\* until the session's transport has signaled closure, every lookup of that
\* id finds the session: the request is handed the session's transport.
C3_LookupAfterReturnFinds ==
    [][\A r \in Req : \A t \in Transports :
          (/\ tr[t].announced
           /\ ~tr[t].closed
           /\ LooksUp(r)
           /\ req'[r].hdr = tr[t].sessionId)
          => (req'[r].pc = "handle" /\ req'[r].transport = t)]_vars

\* A POST carrying an id that was returned to its creator is held by the
\* session's transport.
C3_Witness ==
    \E r \in Req : \E t \in Transports :
        /\ tr[t].announced
        /\ ~tr[t].closed
        /\ req[r].method = "POST"
        /\ req[r].pc = "handle"
        /\ req[r].hdr = tr[t].sessionId
        /\ req[r].transport = t

\* C4: once the close of a session has removed its entry, every request
\* that carries its id and whose body then arrives (POST) or that then
\* arrives (GET, DELETE) ends at once with a routing error response and
\* without a reference to the closed transport.
C4_ClosedIdIsRoutingError ==
    [][\A r \in Req : \A t \in Transports :
          (/\ tr[t].closed
           /\ Arrives(r)
           /\ req'[r].hdr = tr[t].sessionId)
          => (/\ req'[r].pc = "done"
              /\ req'[r].transport = NoTransport
              /\ RoutingError(req'[r].res))]_vars

\* The same for the bodies JSON.parse accepts: this part holds.
C4_ParseableClosedIdIsRoutingError ==
    [][\A r \in Req : \A t \in Transports :
          (/\ tr[t].closed
           /\ LooksUp(r)
           /\ req'[r].hdr = tr[t].sessionId)
          => (/\ req'[r].pc = "done"
              /\ req'[r].transport = NoTransport
              /\ RoutingError(req'[r].res))]_vars

\* A POST without a session id whose body is not an initialization request,
\* answered by the listener.
MissingIdCase(q) ==
    /\ q.pc = "done"
    /\ q.method = "POST"
    /\ q.hdr = Undefined
    /\ Parsed(q)
    /\ ~isInitializeRequest(q.body)
    /\ ~q.caught

\* A POST, GET or DELETE with a session id that resolved to no entry.
NotFoundCase(q) ==
    /\ q.pc = "done"
    /\ q.method \in {"POST", "GET", "DELETE"}
    /\ q.hdr # Undefined
    /\ q.method = "POST" => Parsed(q)
    /\ q.transport = NoTransport
    /\ ~q.caught

\* C5: the response to a POST with no session id and no initialization
\* request is never the response to a request whose session id is not in
\* the registry.
C5_MissingAndNotFoundDiffer ==
    \A r1, r2 \in Req :
        (MissingIdCase(req[r1]) /\ NotFoundCase(req[r2])) => req[r1].res # req[r2].res

\* C6: the step in which the transport of a registered session first signals
\* closure calls close on the session's engine and removes exactly that
\* session's entry; a DELETE answered 200 leaves its id out of the registry.
C6_CloseRemovesEntry ==
    /\ [][\A t \in Transports :
            (/\ ~tr[t].closed
             /\ tr'[t].closed
             /\ tr[t].sessionId \in DOMAIN sessions)
            => LET i == tr[t].sessionId
                   e == sessions[i].mcpServer
               IN  /\ tr'[e].closeCalls > tr[e].closeCalls
                   /\ DOMAIN sessions' = DOMAIN sessions \ {i}
                   /\ \A k \in DOMAIN sessions' : sessions'[k] = sessions[k]]_vars
    /\ [](\A r \in Req :
            (req[r].pc = "done" /\ req[r].method = "DELETE" /\ req[r].res.status = 200)
            => req[r].hdr \notin DOMAIN sessions)

\* A DELETE has been answered 200, its session is closed with its engine's
\* close called, and the other session is still registered.
C6_Witness ==
    \E r \in Req : \E t \in Transports :
        /\ req[r].pc = "done"
        /\ req[r].method = "DELETE"
        /\ req[r].res.status = 200
        /\ ~req[r].caught
        /\ req[r].transport = t
        /\ tr[t].closed
        /\ tr[t].closeCalls >= 1
        /\ \E i \in DOMAIN sessions : sessions[i].transport # t

\* The body is not a message: not JSON, or JSON that is no request envelope.
NotAMessage(q) ==
    \/ q.raw = "badjson"
    \/ Parsed(q) /\ ~q.caught /\ ~(q.body.typ = "object" /\ ~q.body.isNull /\ q.body.hasMethod)

\* C7: a POST whose body is not parseable as a message is answered with a
\* 400-class status and a JSON-RPC error body with id null.
C7_MalformedBodyIs400 ==
    \A r \in Req :
        (req[r].pc = "done" /\ req[r].method = "POST" /\ NotAMessage(req[r]))
        => (req[r].res.status \in 400..499 /\ req[r].res.id = Null)

\* C8: the response to a request envelope with correlation id X carries X,
\* on the success path and on the listener's error paths.
C8_ResponseEchoesCorrelationId ==
    \A r \in Req :
        (/\ req[r].pc = "done"
         /\ req[r].method = "POST"
         /\ Parsed(req[r])
         /\ req[r].body.hasMethod
         /\ req[r].headersSent
         /\ ~req[r].caught)
        => req[r].res.id = req[r].body.id

\* The requests that C9 lists, as r stands after the step.
LeavesRegistryAlone(r) ==
    LET q == req'[r]
    IN  \/ q.url \in {"/health", "/other"}
        \/ q.url = "/mcp" /\ q.method \notin {"POST", "GET", "DELETE"}
        \/ q.method \in {"GET", "DELETE"} /\ q.hdr = Undefined
        \/ q.hdr # Undefined /\ q.hdr \notin DOMAIN sessions
        \/ q.method = "POST" /\ q.hdr = Undefined /\ Parsed(q) /\ ~isInitializeRequest(q.body)

\* The registry gains the one entry of a session just initialized.
IsCreation ==
    \E r \in Req : \E i \in Ids \ DOMAIN sessions :
        /\ req[r].pc = "handle"
        /\ req[r].hdr = Undefined
        /\ isInitializeRequest(req[r].body)
        /\ DOMAIN sessions' = DOMAIN sessions \cup {i}
        /\ sessions'[i].transport = req[r].transport
        /\ \A k \in DOMAIN sessions : sessions'[k] = sessions[k]

\* The registry loses the one entry of a session whose transport closes.
IsClose ==
    \E i \in DOMAIN sessions :
        /\ tr'[sessions[i].transport].closed
        /\ DOMAIN sessions' = DOMAIN sessions \ {i}
        /\ \A k \in DOMAIN sessions' : sessions'[k] = sessions[k]

\* C9: a step changes the registry only as a session creation or a session
\* close, and no step of a request to /health, to an unknown route, with an
\* unsupported method, of a GET or DELETE without session header, of a
\* request with an unknown session id or of a POST without id that is no
\* initialization request changes it.
C9_RegistryFrame ==
    [][/\ sessions' # sessions => (IsCreation \/ IsClose)
       /\ \A r \in Req :
            (req'[r] # req[r] /\ LeavesRegistryAlone(r)) => sessions' = sessions]_vars

\* A POST with an unknown session id and an initialization body was turned
\* down while a session is registered.
C9_Witness ==
    \E r \in Req :
        /\ req[r].pc = "done"
        /\ req[r].method = "POST"
        /\ req[r].hdr # Undefined
        /\ req[r].hdr \notin DOMAIN sessions
        /\ isInitializeRequest(req[r].body)
        /\ req[r].res.status = 400
        /\ DOMAIN sessions # {}

\* C10 as claimed: every fault caught by the handler ends in a 500 with the
\* generic message.
C10_FaultIs500 ==
    \A r \in Req :
        req[r].caught => (req[r].res.status = 500 /\ req[r].res.msg = "Internal server error")

\* C10 as amended: a caught fault ends in the generic 500 unless response
\* headers were already out, and then nothing more is written; the process
\* stays up, and the step that catches the fault touches neither the
\* registry, nor a transport's session, nor any other request.
C10_FaultIs500UnlessHeadersSent ==
    /\ [](/\ alive
          /\ \A r \in Req :
                req[r].caught =>
                    /\ req[r].pc = "done"
                    /\ \/ /\ req[r].res.status = 500
                          /\ req[r].res.msg = "Internal server error"
                          /\ req[r].res.id = Null
                       \/ /\ req[r].res.status = 200
                          /\ req[r].transport # NoTransport)
    /\ [][\A r \in Req :
            (~req[r].caught /\ req'[r].caught) =>
                /\ sessions' = sessions
                /\ \A t \in Transports :
                    /\ tr'[t].sessionId = tr[t].sessionId
                    /\ tr'[t].closed = tr[t].closed
                /\ \A r2 \in Req \ {r} : req'[r2] = req[r2]]_vars

\* A fault inside a session's request handling was answered 500 while the
\* request of another session is with that session's transport.
C10_Witness ==
    \E r1, r2 \in Req :
        /\ req[r1].caught
        /\ req[r1].res.status = 500
        /\ req[r1].transport # NoTransport
        /\ req[r2].pc = "handle"
        /\ req[r2].transport # NoTransport
        /\ req[r2].transport # req[r1].transport
        /\ alive

\* ---------------------------------------------------------- tools, claims
\* An upstream call of c failed: no answer, a status that is not OK, or a
\* body that is no JSON.
UpstreamFailed(c) == \E i \in 1..Len(c.got) : c.got[i].kind \in {"network", "status", "notjson"}

\* The points answer of c came without a forecast reference.
NoForecastRef(c) ==
    /\ c.tool = "get_forecast"
    /\ Len(c.got) >= 1
    /\ c.got[1].kind = "ok"
    /\ c.got[1].forecast = ""

\* C11: under every upstream outcome get_alerts and get_forecast return and
\* never raise to the caller; the result holds exactly one text block, its
\* error flag is set exactly when an upstream call failed or the points
\* answer had no forecast reference, and then the text is the tool's fixed
\* message with nothing of the upstream answer in it.
C11_HandlersReturnOneTextBlock ==
    /\ call.pc \in {"dispatch", "alerts", "points", "forecast", "returned", "invalid"}
    /\ call.pc = "returned" =>
        /\ Len(call.result.content) = 1
        /\ call.result.content[1].type = "text"
        /\ call.result.isError <=> (UpstreamFailed(call) \/ NoForecastRef(call))
        /\ call.result.isError =>
            /\ call.result.content[1].text.msg =
                 (IF call.tool = "get_alerts"
                  THEN "Failed to fetch weather alerts from NWS API."
                  ELSE "Failed to fetch weather forecast from NWS API.")
            /\ call.result.content[1].text.state = << >>
            /\ call.result.content[1].text.items = << >>
    /\ (call.got # << >> /\ call.pc # "forecast") => call.pc = "returned"

\* A second get_forecast dispatch has returned the error result for a points
\* answer without forecast reference, after a first one that rendered periods.
C11_Witness ==
    /\ call.tool = "get_forecast"
    /\ call.pc = "returned"
    /\ call.round = 2
    /\ call.result.isError
    /\ NoForecastRef(call)
    /\ ~call.first.result.isError
    /\ Len(call.first.got) = 2
    /\ Len(call.first.result.content[1].text.items) = 2

\* C12: get_forecast accepts every pair with latitude in [-90, 90] and
\* longitude in [-180, 180], the bounds included, and issues the points
\* request for it; for every other pair the dispatch ends with a validation
\* error and no upstream request is issued.
C12_ForecastRangeInclusive ==
    (call.tool = "get_forecast" /\ call.pc # "dispatch") =>
        IF call.latitude \in -90..90 /\ call.longitude \in -180..180
        THEN /\ call.pc \in {"points", "forecast", "returned"}
             /\ Len(call.requests) >= 1
             /\ call.requests[1].base = "https://api.weather.gov/points/"
             /\ call.requests[1].latitude = call.latitude
             /\ call.requests[1].longitude = call.longitude
        ELSE /\ call.pc = "invalid"
             /\ call.requests = << >>
             /\ call.got = << >>
             /\ call.result = NoResult

\* The pair (90, -180), on the bounds of both ranges, was accepted and its
\* forecast rendered.
C12_Witness ==
    /\ call.tool = "get_forecast"
    /\ call.latitude = 90
    /\ call.longitude = -180
    /\ call.pc = "returned"
    /\ ~call.result.isError
    /\ Len(call.requests) = 2

\* s1 and s2 differ at most in the case of their letters.
SameUpToCase(s1, s2) ==
    /\ Len(s1) = Len(s2)
    /\ \A i \in 1..Len(s1) :
        \/ s1[i] = s2[i]
        \/ {s1[i], s2[i]} \in {{"a", "A"}, {"c", "C"}}

\* C13: for every state code of length 2 get_alerts is accepted and issues
\* the request, free of lower-case letters, that every code differing from
\* it only in letter case issues, and returns what such a code returns on
\* the same upstream answer; a repeated call that gets the upstream answer
\* of the first returns the result of the first.
C13_CaseNormalisedAndIdempotent ==
    (call.tool = "get_alerts" /\ Len(call.state) = 2 /\ call.pc # "dispatch") =>
        /\ call.pc \in {"alerts", "returned"}
        /\ Len(call.requests) = 1
        /\ \A i \in 1..2 : call.requests[1].state[i] \notin {"a", "c"}
        /\ \A s2 \in Strings :
            SameUpToCase(call.state, s2) =>
                /\ call.requests = <<alertsUrl(toUpperCase(s2))>>
                /\ call.pc = "returned" =>
                     call.result = alertsOutcome(toUpperCase(s2), call.got[1]).result
        /\ (call.pc = "returned" /\ call.round > 1 /\ call.got = call.first.got) =>
            /\ call.result = call.first.result
            /\ call.requests = call.first.requests

\* The code "ca" was dispatched twice with no alerts upstream: both calls
\* asked for CA and the second returned the text of the first.
C13_Witness ==
    /\ call.tool = "get_alerts"
    /\ call.state = <<"c", "a">>
    /\ call.pc = "returned"
    /\ call.round = 2
    /\ call.requests[1].state = <<"C", "A">>
    /\ call.got = call.first.got
    /\ call.got[1].kind = "ok"
    /\ call.result.content[1].text.state = <<"C", "A">>
    /\ call.result = call.first.result

\* -------------------------------------------------------- sessions, more
\* The request that is creating the session of transport t: it has called
\* handleRequest with its initialization request and waits for its end.
Creating(r, t) ==
    /\ req[r].method = "POST"
    /\ req[r].hdr = Undefined
    /\ req[r].transport = t
    /\ req[r].pc \in {"handle", "respond"}

\* C14: the step that generates a session's id inserts its registry entry,
\* before the creating request suspends for the rest of the handshake; while
\* that request is suspended with the id generated and the transport open,
\* the id is in the registry, and every lookup of it made meanwhile is handed
\* the new transport.
C14_EntryInsertedWithId ==
    /\ [][\A t \in Transports :
            (tr[t].sessionId = Undefined /\ tr'[t].sessionId # Undefined) =>
                /\ tr'[t].sessionId \in DOMAIN sessions'
                /\ sessions'[tr'[t].sessionId].transport = t
                /\ \E r \in Req : Creating(r, t) /\ req[r].pc = "handle" /\ req'[r].pc = "respond"]_vars
    /\ [](\A r \in Req :
            (req[r].pc = "respond" /\ ~tr[req[r].transport].closed) =>
                /\ tr[req[r].transport].sessionId \in DOMAIN sessions
                /\ sessions[tr[req[r].transport].sessionId].transport = req[r].transport)
    /\ [][\A r, r2 \in Req :
            (/\ req[r].pc = "respond"
             /\ ~tr[req[r].transport].closed
             /\ LooksUp(r2)
             /\ req'[r2].hdr = tr[req[r].transport].sessionId)
            => (req'[r2].pc = "handle" /\ req'[r2].transport = req[r].transport)]_vars

\* The creating request is still suspended, the id has gone out to nobody,
\* and a request that carries the id has been handed the new transport.
C14_Witness ==
    \E r, r2 \in Req :
        /\ req[r].pc = "respond"
        /\ Creating(r, req[r].transport)
        /\ ~tr[req[r].transport].announced
        /\ ~tr[req[r].transport].closed
        /\ req[r2].pc = "handle"
        /\ req[r2].hdr = tr[req[r].transport].sessionId
        /\ req[r2].transport = req[r].transport

\* C15: every registry entry is keyed by the id generated for its own
\* transport and holds the engine created with that transport; no two keys
\* hold the same transport or the same engine; and a key enters the registry
\* only in the step in which the server generates it, made by a request that
\* carries no session id: an id a client supplied is never turned into a key.
C15_KeysAreGeneratedIds ==
    /\ [](/\ \A i \in DOMAIN sessions :
                /\ tr[sessions[i].transport].sessionId = i
                /\ tr[sessions[i].transport].created
                /\ sessions[i].mcpServer = sessions[i].transport
          /\ \A i, j \in DOMAIN sessions :
                i # j => /\ sessions[i].transport # sessions[j].transport
                         /\ sessions[i].mcpServer # sessions[j].mcpServer)
    /\ [][\A i \in DOMAIN sessions' \ DOMAIN sessions :
            /\ \A t \in Transports : tr[t].sessionId # i
            /\ \E t \in Transports : tr'[t].sessionId = i
            /\ \E r \in Req : req'[r] # req[r] /\ req[r].hdr = Undefined
            /\ \A r \in Req : req'[r] # req[r] => req'[r].hdr # i]_vars

\* A client sent the id 2 with an initialization request before the server
\* had generated it and was turned down; the server generated 2 later, and
\* two sessions are registered with their own transports.
C15_Witness ==
    /\ DOMAIN sessions = {1, 2}
    /\ sessions[1].transport # sessions[2].transport
    /\ \E r \in Req :
        /\ req[r].pc = "done"
        /\ req[r].method = "POST"
        /\ req[r].hdr = 2
        /\ isInitializeRequest(req[r].body)
        /\ req[r].res.msg = "Bad Request: No valid session ID provided"

\* r is with the transport it was handed by the registry.
InFlight(r) == req[r].pc = "handle" /\ req[r].hdr # Undefined

\* C16: the close of a session leaves every other request that holds the
\* session's transport as it is, removes the entry and lets the process and
\* all requests go on unharmed; a request that holds the transport of a
\* closed session can take its next step, and that step is the transport's
\* handling of it on the reference it holds.
C16_InFlightSurvivesClose ==
    /\ [][\A t \in Transports :
            (~tr[t].closed /\ tr'[t].closed) =>
                /\ \A r \in Req :
                    (InFlight(r) /\ req[r].transport = t) =>
                        \/ req'[r] = req[r]
                        \/ /\ req[r].method = "DELETE"
                           /\ req'[r].pc = "done"
                           /\ req'[r].res.status = 200
                /\ tr[t].sessionId \notin DOMAIN sessions'
                /\ alive'
                /\ \A r \in Req : req'[r].caught = req[r].caught]_vars
    /\ [](\A r \in Req :
            (InFlight(r) /\ tr[req[r].transport].closed) =>
                ENABLED (TransportPost(r) \/ TransportGet(r) \/ TransportDelete(r)))
    /\ [][\A r \in Req :
            (InFlight(r) /\ tr[req[r].transport].closed /\ req'[r] # req[r]) =>
                /\ req'[r].pc = "done"
                /\ req'[r].transport = req[r].transport
                /\ req'[r].headersSent
                /\ sessions' = sessions
                /\ alive']_vars

\* A POST and a DELETE were handed the transport of the same session; the
\* DELETE has closed the session and was answered 200 while the POST is
\* still with the transport.
C16_Witness ==
    \E r, r2 \in Req :
        /\ InFlight(r)
        /\ req[r].method = "POST"
        /\ tr[req[r].transport].closed
        /\ req[r].hdr \notin DOMAIN sessions
        /\ req[r2].pc = "done"
        /\ req[r2].method = "DELETE"
        /\ req[r2].res.status = 200
        /\ req[r2].transport = req[r].transport

\* C17: the closure handler calls close on the engine of a session at most
\* once, however often the closure event of its transport fires.
C17_EngineClosedAtMostOnce ==
    \A t \in Transports : tr[t].closeCalls <= 1

\* C18: a POST whose session id is in the registry when its body has been
\* read is handed that session's transport, whatever its body, and creates
\* no transport, engine or entry; a transport is created and the registry
\* grows only in steps of an initialization request without session id.
C18_RegisteredIdNeverCreates ==
    [][/\ \A r \in Req :
            (/\ req[r].pc = "body"
             /\ Parsed(req'[r])
             /\ req[r].hdr \in DOMAIN sessions)
            => /\ req'[r].pc = "handle"
               /\ req'[r].transport = sessions[req[r].hdr].transport
               /\ tr' = tr
               /\ sessions' = sessions
       /\ \A r \in Req :
            (req[r].hdr # Undefined /\ req'[r] # req[r] /\ req'[r].pc # "idle") =>
                /\ DOMAIN sessions' \subseteq DOMAIN sessions
                /\ \A t \in Transports : tr'[t].created = tr[t].created
       /\ (\E t \in Transports : ~tr[t].created /\ tr'[t].created) =>
            \E r \in Req :
                /\ req[r].hdr = Undefined
                /\ isInitializeRequest(req'[r].body)
                /\ req'[r].pc = "connect"
       /\ Cardinality(DOMAIN sessions') > Cardinality(DOMAIN sessions) =>
            \E r \in Req :
                /\ req[r].hdr = Undefined
                /\ isInitializeRequest(req[r].body)
                /\ req'[r].pc = "respond"]_vars

\* An initialization request that carried the id of the one registered
\* session went to that session's transport, which refused it; no second
\* transport was created.
C18_Witness ==
    \E r \in Req :
        /\ req[r].pc = "done"
        /\ req[r].method = "POST"
        /\ req[r].hdr \in DOMAIN sessions
        /\ isInitializeRequest(req[r].body)
        /\ req[r].transport = sessions[req[r].hdr].transport
        /\ req[r].res.msg = "Invalid Request: Server already initialized"
        /\ Cardinality(Created) = 1
        /\ Cardinality(DOMAIN sessions) = 1
====
